---- MODULE Spec2Model ----
(***************************************************************************)
(* Adaptive model selection and lifecycle engine of catch-Lead             *)
(* (src/src/monitor/monitor.py): the performance registry persisted in     *)
(* model_performance.json, the Thompson-sampling allocator, the weighted   *)
(* selector, the model cache of OptimizedMABPredictor, the retirement      *)
(* policy and the scoring orchestration.                                   *)
(*                                                                         *)
(* Modelling conventions                                                   *)
(*  - the registry is the JSON document: a sequence of records in dict     *)
(*    insertion order (json.load / json.dump keep that order);             *)
(*  - datetime.now() / time.time() are read from the counter `now`, which  *)
(*    advances with every operation that reads the clock; the k-th record  *)
(*    one initialize_real_models call adds is stamped k sub-ticks later,   *)
(*    so timestamps are distinct and ordered as the ISO strings are;       *)
(*  - conversion_rate is the exact proportion conv/pred kept as a reduced  *)
(*    fraction [num, den]; the percentage is 100 * num / den;              *)
(*  - confidence bounds are kept in tenths of a percentage point.          *)
(***************************************************************************)
EXTENDS FiniteSets, Integers, Sequences, TLC

\* ------------------------------------------------------------------ bounds
MaxClock == 3      \* number of clock-reading operations in a run
MaxBatch == 2      \* largest batch length scored or tracked

\* --------------------------------------------------------------- constants
min_predictions == 10          \* get_active_models: minimum-sample floor
num_samples == 5000            \* thompson_sampling_allocation: trials
DefaultKeepRecent == 5         \* retire_old_models(keep_recent=5)

None == "None"
PLACEHOLDER == "default_model"

RealVersions == {"model_V1", "model_V2", "model_V3", "model_V4", "model_V5", "model_V6"}
Versions == RealVersions \cup {PLACEHOLDER}
\* versions passed explicitly by callers (add_new_model, update_conversions,
\* track_model_performance)
ArgVersions == {"model_V1", "model_V2", PLACEHOLDER}
Leads == {"L1"}
\* batch lengths: the small ones and one that meets the minimum-sample floor
BatchSizes == (1..MaxBatch) \cup {10}
KeepRecents == {1, DefaultKeepRecent}

\* ------------------------------------------------------------- arithmetic
Min(a, b) == IF a <= b THEN a ELSE b
Max(a, b) == IF a >= b THEN a ELSE b

RECURSIVE GCD(_, _)
GCD(a, b) == IF b = 0 THEN a ELSE GCD(b, a % b)

RECURSIVE ISqrtBetween(_, _, _)
ISqrtBetween(x, lo, hi) ==
    IF lo >= hi THEN lo
    ELSE LET mid == (lo + hi + 1) \div 2
         IN  IF mid * mid <= x THEN ISqrtBetween(x, mid, hi)
                               ELSE ISqrtBetween(x, lo, mid - 1)

\* floor of the square root of a non-negative integer
ISqrt(x) == IF x <= 0 THEN 0 ELSE ISqrtBetween(x, 0, Min(x, 46340))

\* math.sqrt raises ValueError (math domain error) on a negative argument
SqrtNeverRaises(x) == FALSE
SqrtDomainError(x) == x < 0

\* (total_conv / total_pred): the proportion as a reduced fraction
Rate(conv, pred) ==
    LET g == GCD(conv, pred)
    IN  IF conv = 0 THEN [num |-> 0, den |-> 1]
        ELSE [num |-> conv \div g, den |-> pred \div g]

ZeroRate == [num |-> 0, den |-> 1]

\* a.conversion_rate > b.conversion_rate
RateGreater(a, b) == a.num * b.den > b.num * a.den

\* ---------------------------------------------------------------- registry
NewRecord(v, t) ==
    [model_version |-> v,
     total_predictions |-> 0,
     total_conversions |-> 0,
     conversion_rate |-> ZeroRate,
     first_seen |-> t,
     last_updated |-> t,
     status |-> "active",
     confidence_interval |-> [lower |-> 0, upper |-> 0]]

HasModel(data, v) == \E i \in 1..Len(data) : data[i].model_version = v
IndexOf(data, v) == CHOOSE i \in 1..Len(data) : data[i].model_version = v
RecordOf(data, v) == data[IndexOf(data, v)]
KeysOf(data) == {data[i].model_version : i \in 1..Len(data)}

\* the radicand p * (1 - p) / n has the sign of num * (den - num)
CIRadicandSign(md) ==
    md.conversion_rate.num * (md.conversion_rate.den - md.conversion_rate.num)

CIRaises(md) ==
    /\ md.total_predictions # 0
    /\ SqrtDomainError(CIRadicandSign(md))

\* z = 1.96; margin in tenths of a percentage point:
\* 1000 * 1.96 * sqrt(p (1 - p) / n) = sqrt(1960^2 * num (den - num) / (den^2 n))
calculate_confidence_interval(md) ==
    LET n == md.total_predictions
        num == md.conversion_rate.num
        den == md.conversion_rate.den
        margin == ISqrt((3841600 * num * (den - num)) \div (den * den * n))
        centreLo == (1000 * num) \div den
        centreHi == (1000 * num + den - 1) \div den
    IN  IF n = 0 THEN [lower |-> 0, upper |-> 0]
        ELSE [lower |-> Max(0, centreLo - margin),
              upper |-> Min(1000, centreHi + margin)]

\* track_model_performance raises before its write when the interval does
TrackRaises(data, v) ==
    /\ HasModel(data, v)
    /\ CIRaises(RecordOf(data, v))

\* (a variant that leaves last_updated of an existing record as it was)
TrackedDataKeepsDate(data, v, n, t) ==
    LET d0 == IF HasModel(data, v) THEN data ELSE Append(data, NewRecord(v, t))
        i == IndexOf(d0, v)
        r1 == [d0[i] EXCEPT !.total_predictions = @ + n]
        r2 == [r1 EXCEPT !.confidence_interval = calculate_confidence_interval(r1)]
    IN  [d0 EXCEPT ![i] = r2]

\* the document track_model_performance(model_version, num_predictions) dumps
TrackedData(data, v, n, t) ==
    LET d0 == IF HasModel(data, v) THEN data ELSE Append(data, NewRecord(v, t))
        i == IndexOf(d0, v)
        r1 == [d0[i] EXCEPT !.total_predictions = @ + n, !.last_updated = t]
        r2 == [r1 EXCEPT !.confidence_interval = calculate_confidence_interval(r1)]
    IN  [d0 EXCEPT ![i] = r2]

\* (a variant that leaves the stored rate as it was)
ConvertedRecordStaleRate(md, t) ==
    [md EXCEPT !.total_conversions = @ + 1, !.last_updated = t]

\* the record update_conversions builds in memory, up to the rate
ConvertedRecord(md, t) ==
    LET conv == md.total_conversions + 1
    IN  [md EXCEPT !.total_conversions = conv,
                   !.conversion_rate = Rate(conv, md.total_predictions),
                   !.last_updated = t]

\* how update_conversions(lead_id, model_version) ends
ConversionOutcome(exists, data, v, t) ==
    IF ~exists THEN "no_performance_data"
    ELSE IF ~HasModel(data, v) THEN "not_found"
    ELSE IF RecordOf(data, v).total_predictions = 0 THEN "ZeroDivisionError"
    ELSE IF CIRaises(ConvertedRecord(RecordOf(data, v), t)) THEN "ValueError"
    ELSE "ok"

\* the document update_conversions dumps on its successful path
ConvertedData(data, v, t) ==
    LET i == IndexOf(data, v)
        r1 == ConvertedRecord(data[i], t)
        r2 == [r1 EXCEPT !.confidence_interval = calculate_confidence_interval(r1)]
    IN  [data EXCEPT ![i] = r2]

\* the document update_conversions leaves on disk: it writes on its
\* successful path only
SavedByConversionUpsert(exists, data, v, t) ==
    IF ConversionOutcome(exists, data, v, t) = "ok" THEN ConvertedData(data, v, t)
    ELSE IF ~HasModel(data, v) THEN Append(data, NewRecord(v, t))
    ELSE data

SavedByConversion(exists, data, v, t) ==
    IF ConversionOutcome(exists, data, v, t) = "ok" THEN ConvertedData(data, v, t)
    ELSE data

\* (a variant that logs the totals read before the increment)
ConversionRecordBeforeIncrement(lead, v, md, t) ==
    [timestamp |-> t,
     lead_id |-> lead,
     model_version |-> v,
     conversion_rate_after |-> md.conversion_rate,
     total_predictions |-> md.total_predictions,
     total_conversions |-> md.total_conversions - 1,
     confidence_interval |-> md.confidence_interval]

\* log_conversion_event: the appended record
ConversionRecord(lead, v, md, t) ==
    [timestamp |-> t,
     lead_id |-> lead,
     model_version |-> v,
     conversion_rate_after |-> md.conversion_rate,
     total_predictions |-> md.total_predictions,
     total_conversions |-> md.total_conversions,
     confidence_interval |-> md.confidence_interval]

\* (a variant that ranks the records in document order, not by date)
PosByInsertion(data, i) == i - 1

\* 0-based position of data[i] in sorted(..., key=last_updated, reverse=True);
\* the sort is stable, equal keys keep their document order
PosByDate(data, i) ==
    Cardinality({j \in 1..Len(data) :
        \/ data[j].last_updated > data[i].last_updated
        \/ data[j].last_updated = data[i].last_updated /\ j < i})

\* (a variant that flips the status of every record beyond keep_recent)
RetiredDataToggling(data, keep_recent) ==
    [i \in 1..Len(data) |->
        [data[i] EXCEPT !.status =
            IF PosByDate(data, i) < keep_recent THEN "active"
            ELSE IF data[i].status = "active" THEN "retired" ELSE "active"]]

\* retire_old_models(keep_recent): the statuses it forces
RetiredData(data, keep_recent) ==
    [i \in 1..Len(data) |->
        [data[i] EXCEPT !.status =
            IF PosByDate(data, i) < keep_recent THEN "active" ELSE "retired"]]

\* add_new_model: performance_data[model_version] = {...}; an existing key
\* keeps its place in the document, a new key is appended
AddedData(data, v, t) ==
    IF HasModel(data, v) THEN [data EXCEPT ![IndexOf(data, v)] = NewRecord(v, t)]
    ELSE Append(data, NewRecord(v, t))

\* initialize_real_models: which keys survive the clean-up
IsDemoModel(v) == v = PLACEHOLDER
StartsWithModelV(v) == v \in RealVersions

KeptByInitialize(v, actual_models) ==
    /\ ~IsDemoModel(v)
    /\ (v \in actual_models \/ StartsWithModelV(v))

RECURSIVE AppendMissing(_, _, _)
AppendMissing(data, listing, t) ==
    IF listing = <<>> THEN data
    ELSE IF HasModel(data, Head(listing))
         THEN AppendMissing(data, Tail(listing), t)
         ELSE AppendMissing(Append(data, NewRecord(Head(listing), t)),
                            Tail(listing), t + 1)

\* the timestamp read in the operation that moves the clock to t
SubTicks == 8
Stamp(t) == t * SubTicks

SeqToSet(s) == {s[i] : i \in 1..Len(s)}

CleanedData(data, listing) ==
    LET Keep(md) == KeptByInitialize(md.model_version, SeqToSet(listing))
    IN  SelectSeq(data, Keep)

InitializedData(data, listing, t) ==
    AppendMissing(CleanedData(data, listing), listing, t)


\* -------------------------------------------------------------- allocator
IsActive(md) == md.status = "active"

\* (a variant of the floor that does not look at the status)
MeetsFloorAnyStatus(md) == md.total_predictions >= min_predictions

MeetsFloor(md) == IsActive(md) /\ md.total_predictions >= min_predictions

\* 0-based position in sort(key=conversion_rate, reverse=True), stable
PosByRate(ms, i) ==
    Cardinality({j \in 1..Len(ms) :
        \/ RateGreater(ms[j].conversion_rate, ms[i].conversion_rate)
        \/ ms[j].conversion_rate = ms[i].conversion_rate /\ j < i})

SortByRate(ms) ==
    [k \in 1..Len(ms) |-> ms[CHOOSE i \in 1..Len(ms) : PosByRate(ms, i) = k - 1]]

\* (a variant without the relaxation of the minimum-sample floor)
get_confident_models(exists, data) ==
    IF ~exists THEN <<>> ELSE SortByRate(SelectSeq(data, MeetsFloor))

\* get_active_models(): [] when the file is missing
get_active_models(exists, data) ==
    LET confident == SelectSeq(data, MeetsFloor)
        relaxed == SelectSeq(data, IsActive)
    IN  IF ~exists THEN <<>>
        ELSE IF confident # <<>> THEN SortByRate(confident)
        ELSE SortByRate(relaxed)

RECURSIVE SumTo(_, _)
SumTo(f, n) == IF n = 0 THEN 0 ELSE f[n] + SumTo(f, n - 1)

\* wins of four models whose weights 4448/5000, 68/5000, 169/5000, 315/5000
\* add up, in double precision, to 0.9999999999999998: below the largest
\* value of random.random().  Two or three weights, and weights of which at
\* most two are not zero, never add up to less than that value.
ShortfallWins == <<4448, 68, 169, 315>>

\* outcomes of the num_samples trials that are enumerated: one half of the
\* trials is won by model i, the other half by model j (i = j: all by one);
\* with four models or more, also the split whose float total falls short
HalfSamples == num_samples \div 2
TrialOutcomes(n) ==
    UNION {{[k \in 1..n |-> (IF k = i THEN HalfSamples ELSE 0)
                            + (IF k = j THEN num_samples - HalfSamples ELSE 0)] :
               j \in i..n} : i \in 1..n}
    \cup (IF n >= Len(ShortfallWins)
          THEN {[k \in 1..n |-> IF k <= Len(ShortfallWins)
                                THEN ShortfallWins[k] ELSE 0]}
          ELSE {})

\* max(model_wins, key=model_wins.get): the first key with the most wins
BestModel(wins, n) ==
    CHOOSE i \in 1..n :
        /\ \A j \in 1..n : wins[j] <= wins[i]
        /\ \A j \in 1..(i - 1) : wins[j] < wins[i]

\* thompson_sampling_allocation(active_models), given the trials' wins; a
\* weight is wins / num_samples and is kept as its number of wins
thompson_sampling_allocation(active_models, wins) ==
    [weights |-> [i \in 1..Len(active_models) |->
                    [model_version |-> active_models[i].model_version,
                     wins |-> wins[i]]],
     reason |-> "thompson_sampling",
     algorithm |-> "optimized_thompson_sampling",
     winner |-> active_models[BestModel(wins, Len(active_models))].model_version,
     total_models |-> Len(active_models)]

\* (a variant that samples whenever a model is listed, a single one too)
AllocationOfAlwaysSampling(active_models, wins) ==
    IF active_models = <<>>
    THEN [weights |-> <<>>, reason |-> "no_active_models", algorithm |-> None,
          winner |-> None, total_models |-> 0]
    ELSE thompson_sampling_allocation(active_models, wins)

\* get_traffic_allocation() over the listed models
AllocationOf(active_models, wins) ==
    IF active_models = <<>>
    THEN [weights |-> <<>>, reason |-> "no_active_models", algorithm |-> None,
          winner |-> None, total_models |-> 0]
    ELSE IF Len(active_models) = 1
    THEN [weights |-> <<[model_version |-> active_models[1].model_version,
                         wins |-> num_samples]>>,
          reason |-> "single_active_model",
          algorithm |-> "single_model",
          winner |-> active_models[1].model_version,
          total_models |-> 0]
    ELSE thompson_sampling_allocation(active_models, wins)

\* the trial outcomes get_traffic_allocation can see for a list of models
OutcomesFor(active_models) ==
    IF Len(active_models) >= 2 THEN TrialOutcomes(Len(active_models))
    ELSE {[i \in 1..Len(active_models) |-> num_samples]}

\* what get_traffic_allocation() hands back before it is ever called
NoAllocation ==
    [weights |-> <<>>, reason |-> None, algorithm |-> None, winner |-> None,
     total_models |-> 0]

\* the sampling loop, trial by trial.  random.betavariate draws are kept as
\* levels; the trials are run in two blocks, all trials of a block drawing
\* the same levels
SampledRates == {1, 2}
TrialBlocks == <<HalfSamples, num_samples - HalfSamples>>

\* max(sampled_rates, key=sampled_rates.get): the first key with the highest
\* sampled rate
TrialWinner(sampled_rates, n) ==
    CHOOSE i \in 1..n :
        /\ \A j \in 1..n : sampled_rates[j] <= sampled_rates[i]
        /\ \A j \in 1..(i - 1) : sampled_rates[j] < sampled_rates[i]

\* (a variant that credits every model whose sampled rate ties the highest)
CreditsEveryTiedModel(model_wins, sampled_rates, count) ==
    [i \in DOMAIN model_wins |->
        IF \A j \in DOMAIN model_wins : sampled_rates[j] <= sampled_rates[i]
        THEN model_wins[i] + count ELSE model_wins[i]]

\* model_wins[winner] += 1, for the count trials of one block
CreditWinner(model_wins, sampled_rates, count) ==
    [model_wins EXCEPT ![TrialWinner(sampled_rates, Len(model_wins))] = @ + count]

\* model_wins after the first k blocks of trials
RECURSIVE SampledWins(_, _, _)
SampledWins(n, samples, k) ==
    IF k = 0 THEN [i \in 1..n |-> 0]
    ELSE CreditWinner(SampledWins(n, samples, k - 1), samples[k], TrialBlocks[k])

\* the draws one get_traffic_allocation() call over n models can make
SamplesFor(n) == [1..Len(TrialBlocks) -> [1..n -> SampledRates]]

\* the trials get_traffic_allocation() runs for a list of models
TrialsRun(active_models) ==
    IF Len(active_models) >= 2 THEN SumTo(TrialBlocks, Len(TrialBlocks)) ELSE 0

\* --------------------------------------------------------------- selector
\* rand_val is kept as ceil(rand_val * num_samples): rand_val <= k/num_samples
\* iff that number is <= k.  num_samples + 1 stands for a draw above the
\* accumulated float total (the residual gap below 1.0).
RandVals == {0, 2500, 5000, 5001}

\* the accumulated float total of the weights is below 1 - 2^-53
FallsShort(weights) ==
    /\ Len(weights) >= Len(ShortfallWins)
    /\ \A k \in 1..Len(weights) :
          weights[k].wins = IF k <= Len(ShortfallWins) THEN ShortfallWins[k] ELSE 0

\* the draws random.random() can make, as seen by the comparison with the
\* accumulated weights: one above the total only when the total falls short
DrawsFor(allocation) ==
    IF FallsShort(allocation.weights) THEN RandVals
    ELSE {r \in RandVals : r <= num_samples}

CumulativeWins(weights, i) ==
    LET w == [k \in 1..Len(weights) |-> weights[k].wins]
    IN  SumTo(w, i)

\* (a variant whose draw must stay strictly below the accumulated weight)
choose_below_cumulative(allocation, latest, rand_val) ==
    LET weights == allocation.weights
        hits == {i \in 1..Len(weights) : rand_val < CumulativeWins(weights, i)}
        first == CHOOSE i \in hits : \A j \in hits : i <= j
        winner == allocation.winner
        winnerWeighted == \E i \in 1..Len(weights) : weights[i].model_version = winner
    IN  IF weights = <<>> THEN latest
        ELSE IF Len(weights) = 1
             THEN IF weights[1].model_version = PLACEHOLDER THEN latest
                  ELSE weights[1].model_version
        ELSE IF hits # {} THEN weights[first].model_version
        ELSE IF winner # None /\ winnerWeighted /\ winner # PLACEHOLDER THEN winner
        ELSE latest

\* get_latest_model_from_config() is `latest` (None when unavailable)
choose_model_for_prediction(allocation, latest, rand_val) ==
    LET weights == allocation.weights
        hits == {i \in 1..Len(weights) : rand_val <= CumulativeWins(weights, i)}
        first == CHOOSE i \in hits : \A j \in hits : i <= j
        winner == allocation.winner
        winnerWeighted == \E i \in 1..Len(weights) : weights[i].model_version = winner
    IN  IF weights = <<>> THEN latest
        ELSE IF Len(weights) = 1
             THEN IF weights[1].model_version = PLACEHOLDER THEN latest
                  ELSE weights[1].model_version
        ELSE IF hits # {} THEN weights[first].model_version
        ELSE IF winner # None /\ winnerWeighted /\ winner # PLACEHOLDER THEN winner
        ELSE latest

\* every version one call of choose_model_for_prediction() can return
PossibleChoices(exists, data, latest) ==
    LET ms == get_active_models(exists, data)
    IN  UNION {{choose_model_for_prediction(AllocationOf(ms, w), latest, r) :
                   r \in DrawsFor(AllocationOf(ms, w))} : w \in OutcomesFor(ms)}

\* ------------------------------------------------------------ model cache
\* OptimizedMABPredictor.models / model_metadata: loaded version -> metadata
LoadedEntry(t) == [last_used |-> t, prediction_count |-> 0]

\* (a variant that leaves last_used of an entry already loaded as it was)
CacheAfterLoadKeepsTime(cache, v, t) ==
    IF v \in DOMAIN cache THEN cache
    ELSE [u \in DOMAIN cache \cup {v} |-> IF u = v THEN LoadedEntry(t) ELSE cache[u]]

\* load_model_if_needed on a version whose artifact can be loaded
CacheAfterLoad(cache, v, t) ==
    IF v \in DOMAIN cache THEN [cache EXCEPT ![v].last_used = t]
    ELSE [u \in DOMAIN cache \cup {v} |-> IF u = v THEN LoadedEntry(t) ELSE cache[u]]

\* self.models[model_version] = joblib.load(...) with fresh metadata, whatever
\* the cache held for the version
CacheAfterStore(cache, v, t) ==
    [u \in DOMAIN cache \cup {v} |-> IF u = v THEN LoadedEntry(t) ELSE cache[u]]

\* predict_batch_optimized: the metadata update after predict_proba
CacheAfterPredict(cache, v, n) == [cache EXCEPT ![v].prediction_count = @ + n]

\* (a variant that ranks the entries by their prediction counts)
UsageRankByCount(cache, v) ==
    Cardinality({u \in DOMAIN cache :
        cache[u].prediction_count > cache[v].prediction_count})

\* unload_unused_models(keep_recent): the entries that stay loaded; position
\* in sorted(model_metadata.items(), key=last_used, reverse=True)
UsageRank(cache, v) ==
    Cardinality({u \in DOMAIN cache : cache[u].last_used > cache[v].last_used})

unload_unused_models(cache, keep_recent) ==
    IF Cardinality(DOMAIN cache) <= keep_recent THEN cache
    ELSE LET keep == {v \in DOMAIN cache : UsageRank(cache, v) < keep_recent}
         IN  [v \in keep |-> cache[v]]

\* get_memory_usage(): tenths of a GB; 0 when psutil is missing or fails
MemReadings == {0, 15, 25, 35}
HighWater == 30
ModerateMark == 20

\* manage_model_memory(): the cache part
\* (a variant that keeps three entries on every reading above the moderate mark)
CacheAfterLenientCheck(cache, mem) ==
    IF mem > 0 /\ mem > ModerateMark THEN unload_unused_models(cache, 3)
    ELSE cache

CacheAfterMemoryCheck(cache, mem) ==
    IF mem > 0 /\ mem > HighWater THEN unload_unused_models(cache, 2)
    ELSE IF mem > 0 /\ mem > ModerateMark THEN unload_unused_models(cache, 3)
    ELSE cache

\* manage_model_memory(): the registry part, retire_old_models(keep_recent=5)
RegistryAfterMemoryCheck(exists, data) ==
    IF exists THEN RetiredData(data, DefaultKeepRecent) ELSE data

\* (a variant that retires only when a memory reading is available)
manage_memory_when_measured(exists, data, cache, mem) ==
    [data |-> IF mem > 0 THEN RegistryAfterMemoryCheck(exists, data) ELSE data,
     cache |-> CacheAfterMemoryCheck(cache, mem)]

\* manage_model_memory() on the reading mem: the registry document and the
\* cache it leaves
manage_model_memory(exists, data, cache, mem) ==
    [data |-> RegistryAfterMemoryCheck(exists, data),
     cache |-> CacheAfterMemoryCheck(cache, mem)]

\* ------------------------------------------------------------------ state
VARIABLES
    now,                       \* the clock
    env,                       \* models directory listing and models_version.json
    performance_file_exists,   \* model_performance.json exists
    registry,                  \* its content, in document order
    models,                    \* mab_predictor.models with model_metadata
    monitoring_log,            \* monitoring_log.jsonl
    conversions,               \* conversions.jsonl
    allocator_inputs,          \* candidates each get_traffic_allocation call of
                               \* the last operation received
    result,                    \* what the last operation returned or raised
    procs,                     \* concurrent callers: position and loaded copy
    returned                   \* per version, what the returned calls added

vars == <<now, env, performance_file_exists, registry, models, monitoring_log,
          conversions, allocator_inputs, result, procs, returned>>

conc == <<procs, returned>>

Procs == {"p1", "p2"}
Idle == [pc |-> "idle", op |-> "none", model_version |-> None, arg |-> 0,
         exists |-> FALSE, data |-> <<>>]
NothingReturned ==
    [v \in ArgVersions |-> [predictions |-> 0, conversions |-> 0]]

\* the environments a run starts in: no trained model, or two
Envs ==
    {[listing |-> <<>>, latest |-> None],
     [listing |-> <<"model_V1", "model_V2">>, latest |-> "model_V2"]}

\* an environment with more trained models than retire_old_models keeps
SixModels ==
    [listing |-> <<"model_V1", "model_V2", "model_V3", "model_V4", "model_V5",
                   "model_V6">>,
     latest |-> "model_V6"]

ModelFiles == SeqToSet(env.listing)

\* what an operation hands back: for a scoring call, selected is the
\* Selector's choice, predicted_by the version whose artifact produced the
\* returned probabilities, model_version the returned version, monitoring
\* whether the monitoring result is not None
\* keep_recent is the argument of a retirement or an eviction, active_models
\* the list get_active_models() returned, allocation the dictionary
\* get_traffic_allocation() returned and trials the sampling trials it ran;
\* current_memory is the reading manage_model_memory() printed, rand_val the
\* draw choose_model_for_prediction() printed, preprocessor the version whose
\* preprocessor predict() applied to the batch
NoResult ==
    [op |-> "none", outcome |-> "none", model_version |-> None,
     selected |-> None, predicted_by |-> None, batch_size |-> 0,
     monitoring |-> FALSE, keep_recent |-> 0, active_models |-> <<>>,
     allocation |-> NoAllocation, trials |-> 0, current_memory |-> 0,
     rand_val |-> 0, preprocessor |-> None]

Outcome(op, outcome, v) ==
    [NoResult EXCEPT !.op = op, !.outcome = outcome, !.model_version = v]

Init ==
    /\ now = 0
    /\ env \in Envs
    /\ performance_file_exists = FALSE
    /\ registry = <<>>
    /\ models = [v \in {} |-> LoadedEntry(0)]
    /\ monitoring_log = <<>>
    /\ conversions = <<>>
    /\ allocator_inputs = <<>>
    /\ result = NoResult
    /\ procs = [p \in Procs |-> Idle]
    /\ returned = NothingReturned

\* ------------------------------------------------------ registry operations
\* track_model_performance(model_version, num_predictions)
TrackModelPerformance(v, n) ==
    /\ now < MaxClock
    /\ now' = now + 1
    /\ IF TrackRaises(registry, v)
       THEN /\ result' = Outcome("track", "ValueError", v)
            /\ UNCHANGED <<performance_file_exists, registry>>
       ELSE /\ registry' = TrackedData(registry, v, n, Stamp(now + 1))
            /\ performance_file_exists' = TRUE
            /\ result' = [Outcome("track", "ok", v) EXCEPT !.batch_size = n]
    /\ allocator_inputs' = <<>>
    /\ UNCHANGED conc
    /\ UNCHANGED <<env, models, monitoring_log, conversions>>

\* update_conversions(lead_id, model_version)
UpdateConversions(lead, v) ==
    LET outcome == ConversionOutcome(performance_file_exists, registry, v,
                                     Stamp(now + 1))
        saved == SavedByConversion(performance_file_exists, registry, v,
                                   Stamp(now + 1))
    IN  /\ result' = Outcome("conversion", outcome, v)
        /\ registry' = saved
        /\ IF outcome = "ok"
           THEN /\ now < MaxClock
                /\ now' = now + 1
                /\ allocator_inputs' =
                       <<Len(get_active_models(performance_file_exists, saved))>>
                /\ conversions' =
                       Append(conversions,
                              ConversionRecord(lead, v, RecordOf(saved, v),
                                               Stamp(now + 1)))
           ELSE /\ allocator_inputs' = <<>>
                /\ UNCHANGED <<now, conversions>>
        /\ UNCHANGED conc
        /\ UNCHANGED <<env, performance_file_exists, models, monitoring_log>>

\* retire_old_models(keep_recent)
RetireOldModels(keep_recent) ==
    /\ registry' = IF performance_file_exists
                   THEN RetiredData(registry, keep_recent) ELSE registry
    /\ result' = [Outcome("retire", "ok", None)
                      EXCEPT !.keep_recent = keep_recent]
    /\ allocator_inputs' = <<>>
    /\ UNCHANGED conc
    /\ UNCHANGED <<now, env, performance_file_exists, models, monitoring_log,
                   conversions>>

\* add_new_model(model_version): the write, then retire_old_models(5)
AddNewModel(v) ==
    /\ now < MaxClock
    /\ now' = now + 1
    /\ registry' = RetiredData(AddedData(registry, v, Stamp(now + 1)),
                               DefaultKeepRecent)
    /\ performance_file_exists' = TRUE
    /\ result' = Outcome("add", "ok", v)
    /\ allocator_inputs' = <<>>
    /\ UNCHANGED conc
    /\ UNCHANGED <<env, models, monitoring_log, conversions>>

\* initialize_real_models(): the listing is the models directory, or the
\* latest configured model when the directory has no model file
InitializeRealModels ==
    LET actual_models == IF env.listing = <<>> /\ env.latest # None
                         THEN <<env.latest>> ELSE env.listing
    IN  /\ now < MaxClock
        /\ now' = now + 1
        /\ registry' = InitializedData(registry, actual_models, Stamp(now + 1))
        /\ performance_file_exists' = TRUE
        /\ result' = Outcome("initialize", "ok", None)
        /\ allocator_inputs' = <<>>
        /\ UNCHANGED conc
        /\ UNCHANGED <<env, models, monitoring_log, conversions>>

\* choose_model_for_prediction() called on its own (predict(), the
\* benchmark), for one outcome of the trials and one draw; active_models is
\* what its get_active_models() call returned
ChooseModelForPrediction(active_models, wins, rand_val) ==
    LET allocation == AllocationOf(active_models, wins)
        chosen == choose_model_for_prediction(allocation, env.latest, rand_val)
    IN  /\ result' = [Outcome("choose",
                              IF chosen = None THEN "absent" ELSE "ok", chosen)
                         EXCEPT !.allocation = allocation,
                                !.rand_val = IF Len(allocation.weights) >= 2
                                             THEN rand_val ELSE 0]
        /\ allocator_inputs' = <<Len(active_models)>>
        /\ UNCHANGED conc
        /\ UNCHANGED <<now, env, performance_file_exists, registry, models,
                       monitoring_log, conversions>>

\* get_active_models() called on its own (the dashboard, the benchmark)
GetActiveModels ==
    /\ result' = [Outcome("list_active", "ok", None) EXCEPT !.active_models =
                      get_active_models(performance_file_exists, registry)]
    /\ allocator_inputs' = <<>>
    /\ UNCHANGED conc
    /\ UNCHANGED <<now, env, performance_file_exists, registry, models,
                   monitoring_log, conversions>>

\* get_traffic_allocation() called on its own, for one course of the trials
GetTrafficAllocation ==
    \E ms \in {get_active_models(performance_file_exists, registry)} :
      \E samples \in SamplesFor(Len(ms)) :
        LET wins == IF Len(ms) >= 2
                    THEN SampledWins(Len(ms), samples, Len(TrialBlocks))
                    ELSE [i \in 1..Len(ms) |-> num_samples]
            allocation == AllocationOf(ms, wins)
        IN  /\ result' = [Outcome("allocate", allocation.reason, allocation.winner)
                             EXCEPT !.allocation = allocation,
                                    !.trials = TrialsRun(ms)]
            /\ allocator_inputs' = <<Len(ms)>>
            /\ UNCHANGED conc
            /\ UNCHANGED <<now, env, performance_file_exists, registry, models,
                           monitoring_log, conversions>>

\* --------------------------------------------------------- cache operations
\* versions the cache is asked for, and the keep_recent values it is called with
CacheVersions == {"model_V1", "model_V2", "model_V3", "model_V4", PLACEHOLDER}
EvictKeeps == {2, 3}

\* how joblib.load and predict_proba can end
LoadEnds == {"loads", "raises"}
PredictEnds == {"predicts", "raises"}

\* load_model_if_needed(model_version) returns True
LoadSucceeds(cache, v, load) ==
    v \in DOMAIN cache \/ (v \in ModelFiles /\ load = "loads")

LoadFailure(v) == IF v \in ModelFiles THEN "ModelLoadFailed" ELSE "ArtifactMissing"

\* mab_predictor.load_model_if_needed(model_version)
LoadModelIfNeeded(v, load) ==
    /\ now < MaxClock
    /\ now' = now + 1
    /\ IF LoadSucceeds(models, v, load)
       THEN /\ models' = CacheAfterLoad(models, v, Stamp(now + 1))
            /\ result' = Outcome("load", "ok", v)
       ELSE /\ models' = models
            /\ result' = Outcome("load", LoadFailure(v), v)
    /\ allocator_inputs' = <<>>
    /\ UNCHANGED conc
    /\ UNCHANGED <<env, performance_file_exists, registry, monitoring_log,
                   conversions>>

\* mab_predictor.predict_batch_optimized(batch_data, model_version) on a
\* batch of n rows
PredictBatchOptimized(v, n, load, predict) ==
    LET loaded == CacheAfterLoad(models, v, Stamp(now + 1))
    IN  /\ now < MaxClock
        /\ now' = now + 1
        /\ IF ~LoadSucceeds(models, v, load)
           THEN /\ models' = models
                /\ result' = Outcome("predict", LoadFailure(v), v)
           ELSE IF predict = "raises"
           THEN /\ models' = loaded
                /\ result' = Outcome("predict", "PredictionFailed", v)
           ELSE /\ models' = CacheAfterPredict(loaded, v, n)
                /\ result' = [Outcome("predict", "ok", v)
                                 EXCEPT !.predicted_by = v, !.batch_size = n]
        /\ allocator_inputs' = <<>>
        /\ UNCHANGED conc
        /\ UNCHANGED <<env, performance_file_exists, registry, monitoring_log,
                       conversions>>

\* mab_predictor.unload_unused_models(keep_recent)
UnloadUnusedModels(keep_recent) ==
    /\ models' = unload_unused_models(models, keep_recent)
    /\ result' = [Outcome("unload",
                          IF Cardinality(DOMAIN models) <= keep_recent
                          THEN "nothing_unloaded" ELSE "unloaded", None)
                      EXCEPT !.keep_recent = keep_recent]
    /\ allocator_inputs' = <<>>
    /\ UNCHANGED conc
    /\ UNCHANGED <<now, env, performance_file_exists, registry, monitoring_log,
                   conversions>>

\* manage_model_memory() on a memory reading
ManageModelMemory(mem) ==
    /\ models' = manage_model_memory(performance_file_exists, registry, models,
                                     mem).cache
    /\ registry' = manage_model_memory(performance_file_exists, registry, models,
                                       mem).data
    /\ result' = [Outcome("manage_memory", "ok", None)
                      EXCEPT !.current_memory = mem]
    /\ allocator_inputs' = <<>>
    /\ UNCHANGED conc
    /\ UNCHANGED <<now, env, performance_file_exists, monitoring_log,
                   conversions>>

\* ------------------------------------------------------------ orchestrator
\* what can go wrong inside monitor_predictions: the monitoring-log append
\* raises ("log"), the registry read or write of track_model_performance
\* raises ("track")
MonitorFaults == {"none", "log", "track"}

MonitoringEntry(v, n, t) == [timestamp |-> t, model_version |-> v, batch_size |-> n]

\* monitor_predictions(probabilities, batch_info): the state it leaves and
\* whether it returned a result (monitoring) or None
monitor_predictions(exists, data, cache, log, v, n, t, fault, mem) ==
    LET logged == Append(log, MonitoringEntry(v, n, t))
        tracked == TrackedData(data, v, n, t)
    IN  IF fault = "log"
        THEN [exists |-> exists, registry |-> data, cache |-> cache, log |-> log,
              allocator |-> <<>>, monitoring |-> FALSE]
        ELSE IF fault = "track" \/ TrackRaises(data, v)
        THEN [exists |-> exists, registry |-> data, cache |-> cache,
              log |-> logged, allocator |-> <<>>, monitoring |-> FALSE]
        ELSE [exists |-> TRUE,
              registry |-> RegistryAfterMemoryCheck(TRUE, tracked),
              cache |-> CacheAfterMemoryCheck(cache, mem),
              log |-> logged,
              allocator |-> <<Len(get_active_models(TRUE, tracked))>>,
              monitoring |-> TRUE]

\* the periodic manage_model_memory() of predict_with_mab_optimized; second
\* is its memory reading (none, or above the high mark), or -1 when the five
\* minutes have not elapsed
PeriodicReadings == {-1, 0, 35}

AfterPeriodicCheck(m, second) ==
    IF second = -1 THEN m
    ELSE [m EXCEPT !.registry = RegistryAfterMemoryCheck(m.exists, m.registry),
                   !.cache = CacheAfterMemoryCheck(m.cache, second)]

\* the version whose artifact predict_batch_optimized uses for the selection
PredictingVersion(selected) == selected

\* predict_with_mab_optimized(batch_data) when no model is selected
ScoreNoModel ==
    /\ now < MaxClock
    /\ None \in PossibleChoices(performance_file_exists, registry, env.latest)
    /\ now' = now + 1
    /\ result' = Outcome("score", "NoModelAvailable", None)
    /\ allocator_inputs' =
           <<Len(get_active_models(performance_file_exists, registry))>>
    /\ UNCHANGED conc
    /\ UNCHANGED <<env, performance_file_exists, registry, models,
                   monitoring_log, conversions>>

\* predict_with_mab_optimized(batch_data) when load_model_if_needed fails:
\* the artifact is missing, or joblib.load raises
ScoreLoadFails ==
  \E selected \in PossibleChoices(performance_file_exists, registry, env.latest) :
    /\ now < MaxClock
    /\ selected # None
    /\ selected \notin DOMAIN models
    /\ now' = now + 1
    /\ result' = [Outcome("score", "ModelLoadFailed", None)
                      EXCEPT !.selected = selected]
    /\ allocator_inputs' =
           <<Len(get_active_models(performance_file_exists, registry))>>
    /\ UNCHANGED conc
    /\ UNCHANGED <<env, performance_file_exists, registry, models,
                   monitoring_log, conversions>>

\* (a variant that falls back to the latest configured model when
\* predict_proba raises, as the caller in predict() does on an exception)
ScorePredictFailsFallsBack ==
  \E selected \in PossibleChoices(performance_file_exists, registry, env.latest) :
    /\ now < MaxClock
    /\ selected # None
    /\ selected \in DOMAIN models \/ selected \in ModelFiles
    /\ now' = now + 1
    /\ models' = CacheAfterLoad(models, selected, Stamp(now + 1))
    /\ registry' = IF env.latest = None THEN registry
                   ELSE TrackedData(registry, env.latest, 1, Stamp(now + 1))
    /\ performance_file_exists' = (performance_file_exists \/ env.latest # None)
    /\ result' = IF env.latest = None
                 THEN [Outcome("score", "PredictionFailed", None)
                          EXCEPT !.selected = selected]
                 ELSE [Outcome("score", "ok", env.latest)
                          EXCEPT !.selected = selected,
                                 !.predicted_by = env.latest, !.batch_size = 1]
    /\ allocator_inputs' =
           <<Len(get_active_models(performance_file_exists, registry))>>
    /\ UNCHANGED conc
    /\ UNCHANGED <<env, monitoring_log, conversions>>

\* predict_with_mab_optimized(batch_data) when predict_proba raises
ScorePredictFails ==
  \E selected \in PossibleChoices(performance_file_exists, registry, env.latest) :
    /\ now < MaxClock
    /\ selected # None
    /\ selected \in DOMAIN models \/ selected \in ModelFiles
    /\ now' = now + 1
    /\ models' = CacheAfterLoad(models, selected, Stamp(now + 1))
    /\ result' = [Outcome("score", "PredictionFailed", None)
                      EXCEPT !.selected = selected]
    /\ allocator_inputs' =
           <<Len(get_active_models(performance_file_exists, registry))>>
    /\ UNCHANGED conc
    /\ UNCHANGED <<env, performance_file_exists, registry, monitoring_log,
                   conversions>>

\* predict_with_mab_optimized(batch_data) when the model predicts: the
\* monitoring step, the periodic memory check, the returned triple; op is the
\* entry point that ran it and preprocessor the version whose transformer
\* prepared the batch (None when the batch came in prepared)
ScoreAs(op, preprocessor, selected, n, fault, mem, second) ==
    LET t == Stamp(now + 1)
        used == PredictingVersion(selected)
        predicted == CacheAfterPredict(CacheAfterLoad(models, selected, t),
                                       used, n)
    IN  /\ now < MaxClock
        /\ selected # None
        /\ selected \in DOMAIN models \/ selected \in ModelFiles
        /\ fault # "none" => mem = 0
        /\ now' = now + 1
        /\ \E m \in {AfterPeriodicCheck(
                        monitor_predictions(performance_file_exists, registry,
                                            predicted, monitoring_log, selected,
                                            n, t, fault, mem),
                        second)} :
             /\ result' = [Outcome(op, "ok", selected)
                              EXCEPT !.selected = selected,
                                     !.predicted_by = used, !.batch_size = n,
                                     !.monitoring = m.monitoring,
                                     !.preprocessor = preprocessor]
             /\ performance_file_exists' = m.exists
             /\ registry' = m.registry
             /\ models' = m.cache
             /\ monitoring_log' = m.log
             /\ allocator_inputs' =
                    <<Len(get_active_models(performance_file_exists, registry))>>
                    \o m.allocator
        /\ UNCHANGED conc
        /\ UNCHANGED <<env, conversions>>

ScoreWith(selected, n, fault, mem, second) ==
    ScoreAs("score", None, selected, n, fault, mem, second)

\* predict_with_mab_optimized(batch_data): the selection, then the rest
Score ==
    \E selected \in PossibleChoices(performance_file_exists, registry, env.latest) :
      \E n \in BatchSizes, fault \in MonitorFaults, mem \in MemReadings,
         second \in PeriodicReadings :
        ScoreWith(selected, n, fault, mem, second)

\* choose_model_for_prediction() over every trial outcome and draw
Choose ==
    \E ms \in {get_active_models(performance_file_exists, registry)} :
      \E w \in OutcomesFor(ms) :
        \E r \in DrawsFor(AllocationOf(ms, w)) :
          ChooseModelForPrediction(ms, w, r)

\* predict(): the version whose preprocessor_<timestamp>.pkl it loads, given
\* what its own choose_model_for_prediction() call returned
PreprocessorVersion(model_name, latest) ==
    IF model_name = PLACEHOLDER \/ model_name = None THEN latest
    ELSE IF StartsWithModelV(model_name) THEN model_name
    ELSE latest

\* predict() from the selection on: model_name is what its own call of
\* choose_model_for_prediction() returned, selected what the call inside
\* predict_with_mab_optimized() returned; it returns [] when the preprocessor
\* cannot be loaded or predict_with_mab_optimized() returns no predictions
PredictWith(model_name, selected, predict, fault, mem, second) ==
    LET pre == PreprocessorVersion(model_name, env.latest)
        empty == [Outcome("predict", "empty", None)
                     EXCEPT !.preprocessor = pre, !.selected = selected]
    IN  IF pre = None \/ pre \notin ModelFiles
        THEN /\ result' = empty
             /\ allocator_inputs' =
                    <<Len(get_active_models(performance_file_exists, registry))>>
             /\ UNCHANGED conc
             /\ UNCHANGED <<now, env, performance_file_exists, registry, models,
                            monitoring_log, conversions>>
        ELSE IF selected = None
                \/ (selected \notin DOMAIN models /\ selected \notin ModelFiles)
        THEN /\ result' = empty
             /\ allocator_inputs' =
                    <<Len(get_active_models(performance_file_exists, registry)),
                      Len(get_active_models(performance_file_exists, registry))>>
             /\ UNCHANGED conc
             /\ UNCHANGED <<now, env, performance_file_exists, registry, models,
                            monitoring_log, conversions>>
        ELSE IF predict = "raises"
        THEN /\ now < MaxClock
             /\ now' = now + 1
             /\ models' = CacheAfterLoad(models, selected, Stamp(now + 1))
             /\ result' = empty
             /\ allocator_inputs' =
                    <<Len(get_active_models(performance_file_exists, registry)),
                      Len(get_active_models(performance_file_exists, registry))>>
             /\ UNCHANGED conc
             /\ UNCHANGED <<env, performance_file_exists, registry,
                            monitoring_log, conversions>>
        ELSE ScoreAs("predict", pre, selected, 1, fault, mem, second)

Predict ==
    \E model_name \in PossibleChoices(performance_file_exists, registry,
                                       env.latest) :
      \E selected \in PossibleChoices(performance_file_exists, registry,
                                       env.latest) :
        \E predict \in PredictEnds, fault \in MonitorFaults, mem \in MemReadings,
           second \in PeriodicReadings :
          PredictWith(model_name, selected, predict, fault, mem, second)

\* ------------------------------------------------------------ specification
Next ==
    \/ \E v \in ArgVersions, n \in BatchSizes : TrackModelPerformance(v, n)
    \/ \E lead \in Leads, v \in ArgVersions : UpdateConversions(lead, v)
    \/ \E k \in KeepRecents : RetireOldModels(k)
    \/ \E v \in ArgVersions : AddNewModel(v)
    \/ InitializeRealModels
    \/ Choose
    \/ ScoreNoModel
    \/ ScoreLoadFails
    \/ ScorePredictFails
    \/ Score
    \/ GetActiveModels
    \/ GetTrafficAllocation
    \/ \E v \in CacheVersions, load \in LoadEnds : LoadModelIfNeeded(v, load)
    \/ \E v \in CacheVersions, n \in 1..MaxBatch, load \in LoadEnds,
          predict \in PredictEnds : PredictBatchOptimized(v, n, load, predict)
    \/ \E k \in EvictKeeps : UnloadUnusedModels(k)
    \/ \E mem \in MemReadings : ManageModelMemory(mem)

Spec == Init /\ [][Next]_vars

\* the registry operations alone
RegistryNext ==
    \/ \E v \in ArgVersions, n \in BatchSizes : TrackModelPerformance(v, n)
    \/ \E lead \in Leads, v \in ArgVersions : UpdateConversions(lead, v)
    \/ \E k \in KeepRecents : RetireOldModels(k)
    \/ \E v \in ArgVersions : AddNewModel(v)
    \/ InitializeRealModels

RegistrySpec == Init /\ [][RegistryNext]_vars

\* scoring, on a registry filled by add_new_model and initialize_real_models
ScoringNext ==
    \/ \E v \in ArgVersions : AddNewModel(v)
    \/ InitializeRealModels
    \/ ScoreNoModel
    \/ ScoreLoadFails
    \/ ScorePredictFails
    \/ Score

ScoringSpec == Init /\ [][ScoringNext]_vars

\* selection and scoring with six trained models
ManyModelsInit ==
    /\ now = 0
    /\ env = SixModels
    /\ performance_file_exists = FALSE
    /\ registry = <<>>
    /\ models = [v \in {} |-> LoadedEntry(0)]
    /\ monitoring_log = <<>>
    /\ conversions = <<>>
    /\ allocator_inputs = <<>>
    /\ result = NoResult
    /\ procs = [p \in Procs |-> Idle]
    /\ returned = NothingReturned

ManyModelsNext ==
    \/ InitializeRealModels
    \/ ScoreLoadFails
    \/ ScorePredictFails
    \/ Score

ManyModelsSpec == ManyModelsInit /\ [][ManyModelsNext]_vars

\* listing, allocation and selection over a registry the registry
\* operations fill
AllocationNext ==
    \/ \E v \in ArgVersions, n \in {1, min_predictions} :
         TrackModelPerformance(v, n)
    \/ \E lead \in Leads, v \in ArgVersions : UpdateConversions(lead, v)
    \/ \E v \in ArgVersions : AddNewModel(v)
    \/ \E k \in KeepRecents : RetireOldModels(k)
    \/ GetActiveModels
    \/ GetTrafficAllocation
    \/ Choose

AllocationSpec == Init /\ [][AllocationNext]_vars

\* first batches and conversions: every version is scored once, from no
\* record, and converts afterwards
RoundTripNext ==
    \/ \E v \in ArgVersions, n \in BatchSizes :
         ~HasModel(registry, v) /\ TrackModelPerformance(v, n)
    \/ \E lead \in Leads, v \in ArgVersions : UpdateConversions(lead, v)

RoundTripSpec == Init /\ [][RoundTripNext]_vars

\* the registry's life cycle with six trained models
LifecycleNext ==
    \/ InitializeRealModels
    \/ \E v \in ArgVersions : TrackModelPerformance(v, 1)
    \/ \E v \in ArgVersions : AddNewModel(v)
    \/ \E k \in KeepRecents : RetireOldModels(k)

LifecycleSpec == ManyModelsInit /\ [][LifecycleNext]_vars

\* the model cache on its own, with six trained models
CacheNext ==
    \/ \E v \in CacheVersions, load \in LoadEnds : LoadModelIfNeeded(v, load)
    \/ \E v \in CacheVersions, n \in 1..MaxBatch, load \in LoadEnds,
          predict \in PredictEnds : PredictBatchOptimized(v, n, load, predict)
    \/ \E k \in EvictKeeps : UnloadUnusedModels(k)
    \/ \E mem \in MemReadings : ManageModelMemory(mem)

CacheSpec == ManyModelsInit /\ [][CacheNext]_vars

\* memory management on an installation that has run initialize_real_models()
\* over six trained models and holds four of them in its cache
MemoryInit ==
    /\ now = 0
    /\ env = SixModels
    /\ performance_file_exists = TRUE
    /\ registry = InitializedData(<<>>, SixModels.listing, 0)
    /\ models = [v \in {"model_V3", "model_V4", "model_V5", "model_V6"} |->
                     LoadedEntry(CHOOSE i \in 1..4 :
                                     v = SixModels.listing[i + 2])]
    /\ monitoring_log = <<>>
    /\ conversions = <<>>
    /\ allocator_inputs = <<>>
    /\ result = NoResult
    /\ procs = [p \in Procs |-> Idle]
    /\ returned = NothingReturned

MemoryNext ==
    \/ \E v \in ArgVersions : TrackModelPerformance(v, 1)
    \/ \E v \in CacheVersions, load \in LoadEnds : LoadModelIfNeeded(v, load)
    \/ \E mem \in MemReadings : ManageModelMemory(mem)

MemorySpec == MemoryInit /\ [][MemoryNext]_vars

\* the same installation, its cache touched by memory management only
ReadingNext ==
    \/ \E v \in ArgVersions : TrackModelPerformance(v, 1)
    \/ \E mem \in MemReadings : ManageModelMemory(mem)

ReadingSpec == MemoryInit /\ [][ReadingNext]_vars

\* an installation that has run initialize_real_models() over four trained
\* models and holds two of them in its cache
FourModels ==
    [listing |-> <<"model_V1", "model_V2", "model_V3", "model_V4">>,
     latest |-> "model_V4"]

FourModelsInit ==
    /\ now = 0
    /\ env = FourModels
    /\ performance_file_exists = TRUE
    /\ registry = InitializedData(<<>>, FourModels.listing, 0)
    /\ models = [v \in {"model_V3", "model_V4"} |->
                     LoadedEntry(IF v = "model_V3" THEN 1 ELSE 2)]
    /\ monitoring_log = <<>>
    /\ conversions = <<>>
    /\ allocator_inputs = <<>>
    /\ result = NoResult
    /\ procs = [p \in Procs |-> Idle]
    /\ returned = NothingReturned

\* scoring on that installation, one row per batch
WarmScore ==
    \E selected \in PossibleChoices(performance_file_exists, registry, env.latest) :
      \E fault \in MonitorFaults, mem \in MemReadings,
         second \in PeriodicReadings :
        ScoreWith(selected, 1, fault, mem, second)

WarmScoringNext ==
    \/ ScorePredictFails
    \/ WarmScore

WarmScoringSpec == FourModelsInit /\ [][WarmScoringNext]_vars

\* ------------------------------------------------- concurrent registry calls
\* Each registry mutation reads model_performance.json into its own copy,
\* changes the copy and dumps it; nothing in the code orders two callers.
RegistryOps == {"track", "conversion", "retire"}

\* the first half of a mutation: open(performance_file) and json.load
ConcLoad(p, op, v, arg) ==
    /\ procs[p].pc = "idle"
    /\ now < MaxClock
    /\ procs' = [procs EXCEPT ![p] =
                    [pc |-> "loaded", op |-> op, model_version |-> v,
                     arg |-> arg, exists |-> performance_file_exists,
                     data |-> registry]]
    /\ UNCHANGED <<now, env, performance_file_exists, registry, models,
                   monitoring_log, conversions, allocator_inputs, result,
                   returned>>

\* the second half of track_model_performance: update the copy, json.dump
ConcStoreTrack(p) ==
    LET me == procs[p]
    IN  /\ me.pc = "loaded" /\ me.op = "track"
        /\ now' = now + 1
        /\ procs' = [procs EXCEPT ![p] = Idle]
        /\ IF TrackRaises(me.data, me.model_version)
           THEN /\ result' = Outcome("track", "ValueError", me.model_version)
                /\ UNCHANGED <<performance_file_exists, registry, returned>>
           ELSE /\ registry' = TrackedData(me.data, me.model_version, me.arg,
                                           Stamp(now + 1))
                /\ performance_file_exists' = TRUE
                /\ returned' = [returned EXCEPT
                                   ![me.model_version].predictions = @ + me.arg]
                /\ result' = [Outcome("track", "ok", me.model_version)
                                 EXCEPT !.batch_size = me.arg]
        /\ allocator_inputs' = <<>>
        /\ UNCHANGED <<env, models, monitoring_log, conversions>>

\* the second half of update_conversions
ConcStoreConversion(p) ==
    LET me == procs[p]
        v == me.model_version
        outcome == ConversionOutcome(me.exists, me.data, v, Stamp(now + 1))
        saved == ConvertedData(me.data, v, Stamp(now + 1))
    IN  /\ me.pc = "loaded" /\ me.op = "conversion"
        /\ procs' = [procs EXCEPT ![p] = Idle]
        /\ result' = Outcome("conversion", outcome, v)
        /\ IF outcome = "ok"
           THEN /\ now' = now + 1
                /\ registry' = saved
                /\ returned' = [returned EXCEPT ![v].conversions = @ + 1]
                /\ allocator_inputs' = <<Len(get_active_models(TRUE, saved))>>
                /\ conversions' =
                       Append(conversions,
                              ConversionRecord("L1", v, RecordOf(saved, v),
                                               Stamp(now + 1)))
           ELSE /\ allocator_inputs' = <<>>
                /\ UNCHANGED <<now, registry, returned, conversions>>
        /\ UNCHANGED <<env, performance_file_exists, models, monitoring_log>>

\* the second half of retire_old_models: dump the copy if a status changed
ConcStoreRetire(p) ==
    LET me == procs[p]
        retired == RetiredData(me.data, me.arg)
    IN  /\ me.pc = "loaded" /\ me.op = "retire"
        /\ procs' = [procs EXCEPT ![p] = Idle]
        /\ registry' = IF me.exists /\ retired # me.data THEN retired
                       ELSE registry
        /\ result' = Outcome("retire", "ok", None)
        /\ allocator_inputs' = <<>>
        /\ UNCHANGED <<now, env, performance_file_exists, models,
                       monitoring_log, conversions, returned>>

ConcNext ==
    \/ \E p \in Procs, v \in ArgVersions, n \in BatchSizes :
         ConcLoad(p, "track", v, n)
    \/ \E p \in Procs, v \in ArgVersions : ConcLoad(p, "conversion", v, 0)
    \/ \E p \in Procs, k \in KeepRecents : ConcLoad(p, "retire", None, k)
    \/ \E p \in Procs : ConcStoreTrack(p)
    \/ \E p \in Procs : ConcStoreConversion(p)
    \/ \E p \in Procs : ConcStoreRetire(p)

ConcSpec == Init /\ [][ConcNext]_vars

\* the end-to-end flow, with none or two trained models
PredictNext ==
    \/ InitializeRealModels
    \/ \E v \in ArgVersions : TrackModelPerformance(v, 1)
    \/ Predict

PredictSpec == Init /\ [][PredictNext]_vars

\* selection on the installation with four trained models, as batches and
\* conversions arrive
SelectionNext ==
    \/ \E v \in ArgVersions : TrackModelPerformance(v, 1)
    \/ \E lead \in Leads, v \in ArgVersions : UpdateConversions(lead, v)
    \/ Choose

SelectionSpec == FourModelsInit /\ [][SelectionNext]_vars

\* ------------------------------------------------- a crash during a mutation
\* A mutation writes the registry with open(performance_file, 'w'), which
\* truncates the file, followed by json.dump into it; there is no temporary
\* file and no rename. One caller, stopped by a crash at any point.
Caller == "p1"

\* the call reaches its open(performance_file, 'w')
WillWrite(me) ==
    IF me.op = "track" THEN ~TrackRaises(me.data, me.model_version)
    ELSE ConversionOutcome(me.exists, me.data, me.model_version, 0) = "ok"

\* the document the call dumps at time t
DumpedData(me, t) ==
    IF me.op = "track" THEN TrackedData(me.data, me.model_version, me.arg, t)
    ELSE ConvertedData(me.data, me.model_version, t)

Crashed == result.op = "crash"

\* open(performance_file, 'w'): the file is there and empty
WriteOpen(p) ==
    LET me == procs[p]
    IN  /\ ~Crashed
        /\ me.pc = "loaded" /\ WillWrite(me)
        /\ procs' = [procs EXCEPT ![p].pc = "writing"]
        /\ registry' = <<>>
        /\ performance_file_exists' = TRUE
        /\ UNCHANGED <<now, env, models, monitoring_log, conversions,
                       allocator_inputs, result, returned>>

\* json.dump completes, the file is closed and the call returns
WriteDump(p) ==
    LET me == procs[p]
        v == me.model_version
        saved == DumpedData(me, Stamp(now + 1))
    IN  /\ ~Crashed
        /\ me.pc = "writing"
        /\ now' = now + 1
        /\ procs' = [procs EXCEPT ![p] = Idle]
        /\ registry' = saved
        /\ IF me.op = "track"
           THEN /\ returned' = [returned EXCEPT ![v].predictions = @ + me.arg]
                /\ result' = [Outcome("track", "ok", v)
                                 EXCEPT !.batch_size = me.arg]
                /\ allocator_inputs' = <<>>
                /\ UNCHANGED conversions
           ELSE /\ returned' = [returned EXCEPT ![v].conversions = @ + 1]
                /\ result' = Outcome("conversion", "ok", v)
                /\ allocator_inputs' = <<Len(get_active_models(TRUE, saved))>>
                /\ conversions' =
                       Append(conversions,
                              ConversionRecord("L1", v, RecordOf(saved, v),
                                               Stamp(now + 1)))
        /\ UNCHANGED <<env, performance_file_exists, models, monitoring_log>>

\* the call raises or refuses before it opens the file for writing
ReturnsUnwritten(p) ==
    LET me == procs[p]
    IN  /\ ~Crashed
        /\ me.pc = "loaded" /\ ~WillWrite(me)
        /\ procs' = [procs EXCEPT ![p] = Idle]
        /\ result' = Outcome(me.op,
                             IF me.op = "track" THEN "ValueError"
                             ELSE ConversionOutcome(me.exists, me.data,
                                                    me.model_version, 0),
                             me.model_version)
        /\ allocator_inputs' = <<>>
        /\ UNCHANGED <<now, env, performance_file_exists, registry, models,
                       monitoring_log, conversions, returned>>

\* the process dies; the file stays as the last completed system call left it
Crash ==
    /\ ~Crashed
    /\ result' = Outcome("crash",
                         IF procs[Caller].pc = "writing" THEN "mid_write"
                         ELSE "between_writes", procs[Caller].model_version)
    /\ UNCHANGED <<now, env, performance_file_exists, registry, models,
                   monitoring_log, conversions, allocator_inputs, procs,
                   returned>>

CrashNext ==
    \/ \E v \in ArgVersions, n \in BatchSizes :
         ~Crashed /\ ConcLoad(Caller, "track", v, n)
    \/ \E v \in ArgVersions : ~Crashed /\ ConcLoad(Caller, "conversion", v, 0)
    \/ WriteOpen(Caller)
    \/ WriteDump(Caller)
    \/ ReturnsUnwritten(Caller)
    \/ Crash

CrashSpec == Init /\ [][CrashNext]_vars

\* ---------------------------------------------------- concurrent cache loads
\* load_model_if_needed tests `model_version not in self.models`, then runs
\* joblib.load (file reads, during which another thread can run) and only
\* then stores the model; nothing in the code orders two callers.

\* the test, and what follows when there is nothing to load
ConcLoadCheck(p, v) ==
    /\ procs[p].pc = "idle"
    /\ now < MaxClock
    /\ allocator_inputs' = <<>>
    /\ IF v \in DOMAIN models
       THEN /\ now' = now + 1
            /\ models' = CacheAfterLoad(models, v, Stamp(now + 1))
            /\ result' = Outcome("load", "ok", v)
            /\ UNCHANGED procs
       ELSE IF v \notin ModelFiles
       THEN /\ result' = Outcome("load", LoadFailure(v), v)
            /\ UNCHANGED <<now, models, procs>>
       ELSE /\ procs' = [procs EXCEPT ![p] =
                            [Idle EXCEPT !.pc = "loading", !.op = "load",
                                         !.model_version = v]]
            /\ UNCHANGED <<now, models, result>>
    /\ UNCHANGED <<env, performance_file_exists, registry, monitoring_log,
                   conversions, returned>>

\* joblib.load returns and the model is stored with fresh metadata, or it
\* raises and the call returns False
ConcLoadStore(p, load) ==
    LET me == procs[p]
    IN  /\ me.pc = "loading" /\ me.op = "load"
        /\ procs' = [procs EXCEPT ![p] = Idle]
        /\ IF load = "loads"
           THEN /\ now' = now + 1
                /\ models' = CacheAfterStore(models, me.model_version,
                                             Stamp(now + 1))
                /\ result' = Outcome("load", "ok", me.model_version)
           ELSE /\ result' = Outcome("load", "ModelLoadFailed", me.model_version)
                /\ UNCHANGED <<now, models>>
        /\ allocator_inputs' = <<>>
        /\ UNCHANGED <<env, performance_file_exists, registry, monitoring_log,
                       conversions, returned>>

CacheConcNext ==
    \/ \E p \in Procs, v \in ArgVersions : ConcLoadCheck(p, v)
    \/ \E p \in Procs, load \in LoadEnds : ConcLoadStore(p, load)

CacheConcSpec == Init /\ [][CacheConcNext]_vars

\* ------------------------------------------------------------- properties
PredictionsOf(data, v) ==
    IF HasModel(data, v) THEN RecordOf(data, v).total_predictions ELSE 0
ConversionsOf(data, v) ==
    IF HasModel(data, v) THEN RecordOf(data, v).total_conversions ELSE 0

\* the ways update_conversions reports a version the registry does not know:
\* "Model version ... not found", or "No performance data found"
UnknownModelOutcomes == {"not_found", "no_performance_data"}

\* C1: in every persisted registry state each record has
\* total_conversions <= total_predictions (a conversion that would exceed the
\* predictions raises in calculate_confidence_interval before the write).
ConversionsWithinPredictions ==
    \A i \in 1..Len(registry) :
        registry[i].total_conversions <= registry[i].total_predictions

\* a conversion was refused on a record whose conversions equal its predictions
ConversionRefusedAtLimit ==
    /\ result.op = "conversion"
    /\ result.outcome = "ValueError"
    /\ HasModel(registry, result.model_version)
    /\ RecordOf(registry, result.model_version).total_predictions > 0
    /\ RecordOf(registry, result.model_version).total_conversions
         = RecordOf(registry, result.model_version).total_predictions

\* C2: every record's conversion_rate is 100 * total_conversions /
\* total_predictions when total_predictions > 0, and 0 otherwise.
RateIsDerived ==
    \A i \in 1..Len(registry) :
        IF registry[i].total_predictions > 0
        THEN registry[i].conversion_rate.num * registry[i].total_predictions
               = registry[i].total_conversions * registry[i].conversion_rate.den
        ELSE registry[i].conversion_rate = ZeroRate

\* C3: once every concurrent caller has returned, no update is lost: each
\* version's total_predictions is the sum of the batch counts of the returned
\* track calls and its total_conversions the number of returned conversions.
NoLostUpdate ==
    (\A p \in Procs : procs[p].pc = "idle") =>
        \A v \in ArgVersions :
            /\ PredictionsOf(registry, v) = returned[v].predictions
            /\ ConversionsOf(registry, v) = returned[v].conversions

\* C4: a successful score returns the version whose artifact produced the
\* probabilities, adds the batch length to exactly that version's
\* total_predictions and changes no other counter.
ScoreAttributesBatch ==
    [][(result'.op = "score" /\ result'.outcome = "ok") =>
          /\ result'.predicted_by = result'.model_version
          /\ \A v \in Versions :
                /\ PredictionsOf(registry', v) =
                      PredictionsOf(registry, v)
                      + (IF v = result'.model_version THEN result'.batch_size ELSE 0)
                /\ ConversionsOf(registry', v) = ConversionsOf(registry, v)]_vars

\* C5: a score whose load or prediction fails returns a failure: it returns
\* no probabilities and no version, probabilities never come from a version
\* other than the selected one, and no registry counter changes.
FailedScoreSurfaces ==
    [][(result'.op = "score") =>
          /\ result'.predicted_by \in {None, result'.selected}
          /\ (result'.outcome # "ok") =>
                /\ result'.predicted_by = None
                /\ result'.model_version = None
                /\ \A v \in Versions :
                      /\ PredictionsOf(registry', v) = PredictionsOf(registry, v)
                      /\ ConversionsOf(registry', v) = ConversionsOf(registry, v)]_vars

\* a prediction failed on a registry that already holds scored batches
PredictionFailedAfterScoring ==
    /\ result.op = "score"
    /\ result.outcome = "PredictionFailed"
    /\ result.selected # None
    /\ PredictionsOf(registry, result.selected) > 0

\* C6: score never returns a successful result for a batch whose registry
\* increment was not recorded: a failure of the monitoring-log write or of
\* the registry update surfaces as a failure.
SuccessMeansRecorded ==
    [][(result'.op = "score" /\ result'.outcome = "ok") =>
          /\ result'.monitoring
          /\ PredictionsOf(registry', result'.model_version)
               = PredictionsOf(registry, result'.model_version)
                 + result'.batch_size]_vars

\* C7: update_conversions for a version without a record reports the unknown
\* model, creates no record and leaves the registry and the conversion log
\* as they were.
UnknownVersionLeavesRegistry ==
    [][(result'.op = "conversion"
        /\ ~HasModel(registry, result'.model_version)) =>
          /\ result'.outcome \in UnknownModelOutcomes
          /\ registry' = registry
          /\ conversions' = conversions
          /\ performance_file_exists' = performance_file_exists]_vars

\* an unknown version was reported while other records exist
UnknownVersionReported ==
    /\ result.op = "conversion"
    /\ result.outcome = "not_found"
    /\ ~HasModel(registry, result.model_version)
    /\ registry # <<>>

\* C8: a conversion for a version that has a record but no prediction fails
\* with the unknown-model outcome and leaves registry and log unchanged.
NeverScoredIsUnknown ==
    [][(/\ result'.op = "conversion"
        /\ HasModel(registry, result'.model_version)
        /\ PredictionsOf(registry, result'.model_version) = 0) =>
          /\ result'.outcome \in UnknownModelOutcomes
          /\ registry' = registry
          /\ conversions' = conversions]_vars

\* C9: no registry operation removes a record or lowers its counters.
HistoryIsKept ==
    [][\A v \in KeysOf(registry) :
          /\ HasModel(registry', v)
          /\ PredictionsOf(registry', v) >= PredictionsOf(registry, v)
          /\ ConversionsOf(registry', v) >= ConversionsOf(registry, v)]_vars

\* C10: every allocator invocation receives at most keep_recent = 5
\* candidate models.
AllocatorSeesAtMostKeepRecent ==
    \A i \in 1..Len(allocator_inputs) : allocator_inputs[i] <= DefaultKeepRecent

ActiveIn(data) == {i \in 1..Len(data) : data[i].status = "active"}

DistinctDates(data) ==
    \A i, j \in 1..Len(data) :
        i # j => data[i].last_updated # data[j].last_updated

\* C11: retire_old_models(k) on n records with distinct last_updated leaves
\* exactly min(k, n) records active, every active record more recently
\* updated than every other one, and all the others retired; nothing but
\* the status changes.
RetireKeepsMostRecent ==
    [][(result'.op = "retire" /\ performance_file_exists
        /\ DistinctDates(registry)) =>
          LET k == result'.keep_recent
              n == Len(registry)
          IN  /\ Len(registry') = n
              /\ Cardinality(ActiveIn(registry')) = Min(k, n)
              /\ \A i \in 1..n : registry'[i].status \in {"active", "retired"}
              /\ \A i \in ActiveIn(registry'), j \in (1..n) \ ActiveIn(registry') :
                    registry[i].last_updated > registry[j].last_updated
              /\ \A i \in 1..n :
                    [registry'[i] EXCEPT !.status = registry[i].status]
                        = registry[i]]_vars

\* retire_old_models(5) retired one of more than five records, and not the
\* first of the document
RetiredOldestOfMany ==
    /\ result.op = "retire"
    /\ result.keep_recent = DefaultKeepRecent
    /\ Len(registry) > DefaultKeepRecent
    /\ Cardinality(ActiveIn(registry)) = DefaultKeepRecent
    /\ \E i \in ActiveIn(registry), j \in (1..Len(registry)) \ ActiveIn(registry) :
          i < j

\* C12: retire_old_models(k) called again right after retire_old_models(k)
\* leaves the registry (statuses, counters, timestamps) as the first call
\* left it.
RetireTwiceIsRetireOnce ==
    [][(/\ result.op = "retire"
        /\ result'.op = "retire"
        /\ result'.keep_recent = result.keep_recent) =>
          registry' = registry]_vars

\* retire_old_models(1) left one record active and retired the others
RetiredAllButOne ==
    /\ result.op = "retire"
    /\ result.keep_recent = 1
    /\ Len(registry) >= 2
    /\ Cardinality(ActiveIn(registry)) = 1

ActiveVersions(data) == {data[i].model_version : i \in ActiveIn(data)}
WeightedVersions(allocation) ==
    {allocation.weights[i].model_version : i \in 1..Len(allocation.weights)}

\* C13: choose_model_for_prediction returns a version whenever an active
\* record of a real (non-placeholder) version exists or a latest trained
\* version is configured; it returns None only when neither is the case.
ChooseFindsAModel ==
    (/\ result.op = "choose"
     /\ \/ env.latest # None
        \/ \E v \in ActiveVersions(registry) : v # PLACEHOLDER) =>
        result.model_version # None

\* C14: the weights of every allocation have exactly the versions of the
\* status = active records as keys.
WeightsCoverActiveVersions ==
    result.op = "allocate" =>
        WeightedVersions(result.allocation) = ActiveVersions(registry)

\* C14, amended: the weights of every allocation have exactly the versions
\* get_active_models lists as keys: the active versions with at least 10
\* predictions if there is one, otherwise all active versions; a retired
\* version is never assigned a weight.
WeightsCoverListedVersions ==
    result.op = "allocate" =>
        LET confident == {registry[i].model_version : i \in
                             {j \in ActiveIn(registry) :
                                 registry[j].total_predictions >= 10}}
        IN  /\ WeightedVersions(result.allocation)
                  = IF confident # {} THEN confident
                    ELSE ActiveVersions(registry)
            /\ WeightedVersions(result.allocation) \subseteq
                  ActiveVersions(registry)

\* an allocation that leaves an active version below the floor without weight
ActiveBelowFloorUnweighted ==
    /\ result.op = "allocate"
    /\ result.allocation.weights # <<>>
    /\ \E v \in ActiveVersions(registry) :
          v \notin WeightedVersions(result.allocation)

\* C15: sampling over two or more models credits every trial to exactly one
\* model: the wins sum to num_samples, every weight wins / num_samples lies
\* in [0, 1] and the weights sum to 1.
TrialsCreditOneModel ==
    (result.op = "allocate" /\ Len(result.allocation.weights) >= 2) =>
        LET weights == result.allocation.weights
            wins == [i \in 1..Len(weights) |-> weights[i].wins]
        IN  /\ result.trials = num_samples
            /\ SumTo(wins, Len(wins)) = num_samples
            /\ \A i \in 1..Len(wins) : 0 <= wins[i] /\ wins[i] <= num_samples

\* the trials were shared between two models
SamplingSplitTheTraffic ==
    /\ result.op = "allocate"
    /\ result.allocation.reason = "thompson_sampling"
    /\ \E i, j \in 1..Len(result.allocation.weights) :
          /\ i # j
          /\ result.allocation.weights[i].wins > 0
          /\ result.allocation.weights[j].wins > 0

\* C16: with exactly one active model v the allocation is {v: 1.0} with
\* reason single_active_model, algorithm single_model and winner v, and no
\* sampling trial is run.
SingleActiveGetsAll ==
    (result.op = "allocate" /\ Cardinality(ActiveVersions(registry)) = 1) =>
        LET v == CHOOSE u \in ActiveVersions(registry) : TRUE
        IN  /\ result.allocation.weights
                  = <<[model_version |-> v, wins |-> num_samples]>>
            /\ result.allocation.reason = "single_active_model"
            /\ result.allocation.algorithm = "single_model"
            /\ result.allocation.winner = v
            /\ result.trials = 0

\* an allocation over one active record beside a retired one
SingleActiveBesideRetired ==
    /\ result.op = "allocate"
    /\ Cardinality(ActiveVersions(registry)) = 1
    /\ Len(registry) >= 2
    /\ result.allocation.reason = "single_active_model"

\* C17: get_active_models returns only active records, each once, sorted by
\* conversion_rate descending: the active records with at least 10
\* predictions if there is one, otherwise all active records; it is not
\* empty when an active record exists.
ListIsActiveSortedFloored ==
    result.op = "list_active" =>
        LET listed == result.active_models
            versions == {listed[i].model_version : i \in 1..Len(listed)}
            confident == {registry[i].model_version : i \in
                             {j \in ActiveIn(registry) :
                                 registry[j].total_predictions >= 10}}
        IN  /\ Cardinality(versions) = Len(listed)
            /\ \A i \in 1..Len(listed) :
                  /\ HasModel(registry, listed[i].model_version)
                  /\ listed[i] = RecordOf(registry, listed[i].model_version)
                  /\ listed[i].status = "active"
            /\ \A i, j \in 1..Len(listed) :
                  i < j => ~RateGreater(listed[j].conversion_rate,
                                        listed[i].conversion_rate)
            /\ versions = IF confident # {} THEN confident
                          ELSE ActiveVersions(registry)
            /\ ActiveVersions(registry) # {} => listed # <<>>

\* no active record meets the floor, and the listing puts the record with the
\* higher rate before one that precedes it in the document
ListedByRateBelowFloor ==
    /\ result.op = "list_active"
    /\ Len(result.active_models) >= 2
    /\ \A i \in 1..Len(result.active_models) :
          result.active_models[i].total_predictions < 10
    /\ RateGreater(result.active_models[1].conversion_rate,
                   result.active_models[2].conversion_rate)
    /\ IndexOf(registry, result.active_models[1].model_version)
         > IndexOf(registry, result.active_models[2].model_version)

Loading(p, v) == procs[p].pc = "loading" /\ procs[p].model_version = v

\* C18: concurrent callers asking for the same version load it at most once:
\* no load of a version starts while another caller is loading that version
\* or after it is loaded.
LoadsAtMostOnce ==
    \A v \in ArgVersions :
        /\ \A p, q \in Procs : (Loading(p, v) /\ Loading(q, v)) => p = q
        /\ \A p \in Procs : Loading(p, v) => v \notin DOMAIN models

\* C19: unload_unused_models(k) with more than k loaded entries leaves
\* exactly k of them, each more recently used than every unloaded one and
\* with its metadata untouched; with k entries or fewer it unloads nothing.
EvictKeepsMostRecentlyUsed ==
    [][(result'.op = "unload") =>
          LET k == result'.keep_recent
              kept == DOMAIN models'
          IN  IF Cardinality(DOMAIN models) > k
              THEN /\ kept \subseteq DOMAIN models
                   /\ Cardinality(kept) = k
                   /\ \A v \in kept, u \in DOMAIN models \ kept :
                         models[v].last_used > models[u].last_used
                   /\ \A v \in kept : models'[v] = models[v]
              ELSE models' = models]_vars

\* an eviction kept an entry that never predicted
EvictionKeptUnusedEntry ==
    /\ result.op = "unload"
    /\ result.outcome = "unloaded"
    /\ Cardinality(DOMAIN models) = result.keep_recent
    /\ \E v \in DOMAIN models : models[v].prediction_count = 0

\* C20: predict_batch_optimized on a version that is not loaded fails and
\* neither loads the artifact nor changes the set of loaded entries.
PredictNeedsLoadedModel ==
    [][(result'.op = "predict" /\ result'.model_version \notin DOMAIN models) =>
          /\ result'.outcome # "ok"
          /\ DOMAIN models' = DOMAIN models]_vars

\* C24: a conversion call that succeeds appends exactly one entry to the
\* conversions log, carrying the totals, the rate and the interval the saved
\* record has right after the increment; a conversion call that fails appends
\* nothing; no step changes or removes an entry already in the log
IsPrefix(s, t) == Len(s) <= Len(t) /\ SubSeq(t, 1, Len(s)) = s

ConversionLoggedOnce ==
    [][/\ IsPrefix(conversions, conversions')
       /\ result'.op = "conversion" /\ result'.outcome = "ok" =>
             LET v == result'.model_version
                 md == RecordOf(registry', v)
                 e == conversions'[Len(conversions')]
             IN  /\ Len(conversions') = Len(conversions) + 1
                 /\ md.total_conversions = ConversionsOf(registry, v) + 1
                 /\ e.model_version = v
                 /\ e.total_predictions = md.total_predictions
                 /\ e.total_conversions = md.total_conversions
                 /\ e.conversion_rate_after = md.conversion_rate
                 /\ e.confidence_interval = md.confidence_interval
       /\ result'.op = "conversion" /\ result'.outcome # "ok" =>
             conversions' = conversions]_vars

\* a second conversion was logged behind the first
SecondConversionLogged ==
    /\ result.op = "conversion" /\ result.outcome = "ok"
    /\ Len(conversions) >= 2
    /\ conversions[Len(conversions)].total_conversions = 2

\* C27: when a retired version has just received a prediction batch and
\* retire_old_models(keep_recent) runs next with keep_recent >= 1, the version
\* has status active afterwards, and get_active_models() lists it whenever it
\* meets the minimum-sample floor or no active record does
ListedVersions(exists, data) ==
    LET ms == get_active_models(exists, data)
    IN  {ms[i].model_version : i \in 1..Len(ms)}

FreshTrafficRepromotes ==
    [][(/\ result.op = "track" /\ result.outcome = "ok"
        /\ RecordOf(registry, result.model_version).status = "retired"
        /\ result'.op = "retire" /\ result'.keep_recent >= 1) =>
          LET v == result.model_version
              md == RecordOf(registry', v)
          IN  /\ md.status = "active"
              /\ v \in ActiveVersions(registry')
              /\ (MeetsFloor(md) \/ SelectSeq(registry', MeetsFloor) = <<>>) =>
                    v \in ListedVersions(performance_file_exists', registry')]_vars

\* the oldest of six versions was retired, then scored a batch, and the
\* retirement that followed made it active while the version that is now the
\* oldest went out
RetiredVersionIsBack ==
    /\ result.op = "retire" /\ result.keep_recent = DefaultKeepRecent
    /\ Len(registry) = 6
    /\ HasModel(registry, "model_V1") /\ HasModel(registry, "model_V2")
    /\ RecordOf(registry, "model_V1").status = "active"
    /\ RecordOf(registry, "model_V1").total_predictions = 1
    /\ RecordOf(registry, "model_V2").status = "retired"
    /\ RecordOf(registry, "model_V1").last_updated >
           RecordOf(registry, "model_V6").last_updated

\* C22: whatever the memory reading, manage_model_memory() leaves the registry
\* document every other reading would have left, hence the same versions
\* choose_model_for_prediction() can return; apart from the registry only the
\* cache changes
ReadingOnlySteersEviction ==
    [][result'.op = "manage_memory" =>
         /\ \A m \in MemReadings :
              LET other == manage_model_memory(performance_file_exists, registry,
                                               models, m)
              IN  /\ other.data = registry'
                  /\ PossibleChoices(performance_file_exists, other.data,
                                     env.latest)
                       = PossibleChoices(performance_file_exists', registry',
                                         env'.latest)
         /\ UNCHANGED <<now, env, performance_file_exists, monitoring_log,
                        conversions>>]_vars

\* with no reading available the step retired the stalest of six versions and
\* left the four loaded entries alone
RetiredWithoutReading ==
    /\ result.op = "manage_memory" /\ result.current_memory = 0
    /\ Cardinality(DOMAIN models) = 4
    /\ Len(registry) = 6
    /\ Cardinality(ActiveVersions(registry)) = 5

\* C28: after manage_model_memory(), a reading above 3.0 GB leaves at most two
\* entries loaded, a reading above 2.0 GB and not above 3.0 GB at most three,
\* and a missing reading or one not above 2.0 GB leaves the loaded entries as
\* they were; the step loads nothing
PressureBoundsTheCache ==
    [][result'.op = "manage_memory" =>
         LET mem == result'.current_memory
         IN  /\ mem > HighWater => Cardinality(DOMAIN models') <= 2
             /\ mem > ModerateMark /\ mem <= HighWater =>
                   Cardinality(DOMAIN models') <= 3
             /\ mem <= ModerateMark => models' = models
             /\ DOMAIN models' \subseteq DOMAIN models
             /\ \A v \in DOMAIN models' : models'[v] = models[v]]_vars

\* a moderate reading left the three entries used last: the one loaded since
\* the start and the two newest of the four the cache started with
ModerateReadingKeptThree ==
    /\ result.op = "manage_memory" /\ result.current_memory = 25
    /\ DOMAIN models = {"model_V1", "model_V5", "model_V6"}

\* C30: when predict_with_mab_optimized() has returned predictions, the version
\* that produced them is loaded, whatever the readings of the memory
\* management that ran after the prediction, and no loaded entry was used
\* more recently
UsedModelStaysWarm ==
    result.op = "score" /\ result.outcome = "ok" =>
        /\ result.predicted_by \in DOMAIN models
        /\ \A u \in DOMAIN models :
              models[u].last_used <= models[result.predicted_by].last_used

\* a high reading after the score left two entries: the version just used,
\* which was not loaded before, and the newer of the two older ones
ScoredThenEvictedToTwo ==
    /\ result.op = "score" /\ result.outcome = "ok"
    /\ result.predicted_by = "model_V1"
    /\ DOMAIN models = {"model_V1", "model_V4"}
    /\ models["model_V1"].prediction_count = 1

\* C23: a version that had no record, was scored one batch of n rows and then
\* converted k times has total_predictions n, total_conversions k <= n,
\* conversion_rate 100 k / n, and an interval with lower <= rate <= upper
LoggedConversions(log, v) ==
    Cardinality({j \in 1..Len(log) : log[j].model_version = v})

RoundTripRecord(md, log) ==
    LET k == LoggedConversions(log, md.model_version)
        n == md.total_predictions
        rate == md.conversion_rate
    IN  /\ n \in BatchSizes
        /\ md.total_conversions = k
        /\ k <= n
        /\ rate = Rate(k, n)
        /\ rate.num * n = k * rate.den
        /\ md.confidence_interval.lower * rate.den <= 1000 * rate.num
        /\ 1000 * rate.num <= md.confidence_interval.upper * rate.den

BatchThenConversionsAddUp ==
    [][/\ \A i \in 1..Len(registry') :
              RoundTripRecord(registry'[i], conversions')
       /\ result'.op = "track" =>
            /\ result'.outcome = "ok"
            /\ PredictionsOf(registry', result'.model_version)
                 = result'.batch_size
       /\ result'.op = "conversion" =>
            \A v \in ArgVersions :
                PredictionsOf(registry', v) = PredictionsOf(registry, v)]_vars

\* ten rows scored, two of them converted: rate 20 %, strictly inside its
\* interval
TwoOfTenConverted ==
    /\ HasModel(registry, "model_V1")
    /\ RecordOf(registry, "model_V1").total_predictions = 10
    /\ RecordOf(registry, "model_V1").total_conversions = 2
    /\ RecordOf(registry, "model_V1").conversion_rate = [num |-> 1, den |-> 5]
    /\ RecordOf(registry, "model_V1").confidence_interval.lower < 200
    /\ RecordOf(registry, "model_V1").confidence_interval.upper > 200

\* C21: after a crash at any point of a registry mutation, the registry file
\* holds every increment of the calls that returned, and it holds either the
\* document the interrupted call read or the document it was writing
CrashLosesAtMostTheCallInFlight ==
    Crashed =>
        /\ \A v \in ArgVersions :
              /\ PredictionsOf(registry, v) >= returned[v].predictions
              /\ ConversionsOf(registry, v) >= returned[v].conversions
        /\ procs[Caller].pc = "writing" =>
              \/ registry = procs[Caller].data
              \/ registry = DumpedData(procs[Caller], Stamp(now + 1))

\* C25: with two or more weighted models, choose_model_for_prediction()
\* walks the weights in the order get_active_models() listed the models and
\* returns the first model whose accumulated weight is at least the draw; when
\* no model is, it returns the allocation's winner if that is a weighted model
\* other than the placeholder, and the latest configured model otherwise
ReachedBy(weights, r) == {i \in 1..Len(weights) : CumulativeWins(weights, i) >= r}

DrawPicksFirstCovering ==
    [][result'.op = "choose" /\ Len(result'.allocation.weights) >= 2 =>
         LET weights == result'.allocation.weights
             r == result'.rand_val
             winner == result'.allocation.winner
             listed == get_active_models(performance_file_exists, registry)
             reached == ReachedBy(weights, r)
         IN  /\ Len(weights) = Len(listed)
             /\ \A i \in 1..Len(weights) :
                   weights[i].model_version = listed[i].model_version
             /\ reached # {} =>
                   \E i \in reached :
                       /\ \A j \in reached : i <= j
                       /\ result'.model_version = weights[i].model_version
             /\ reached = {} =>
                   result'.model_version =
                       IF /\ winner \in WeightedVersions(result'.allocation)
                          /\ winner # PLACEHOLDER
                       THEN winner ELSE env.latest]_vars

\* the draw equalled the first model's weight and the first model was returned
DrawOnTheBoundary ==
    /\ result.op = "choose"
    /\ Len(result.allocation.weights) >= 2
    /\ result.rand_val = HalfSamples
    /\ result.allocation.weights[1].wins = HalfSamples
    /\ result.model_version = result.allocation.weights[1].model_version

\* C26: choose_model_for_prediction() never returns "default_model"
NeverReturnsPlaceholder ==
    result.op = "choose" => result.model_version # PLACEHOLDER

\* C29: when predict() returns scored leads, the version whose preprocessor
\* transformed the batch is the version whose model scored it and is reported
\* as model_used
PreprocessorMatchesScorer ==
    result.op = "predict" /\ result.outcome = "ok" =>
        /\ result.preprocessor = result.predicted_by
        /\ result.preprocessor = result.model_version

====
